---------------------------- MODULE Spec2Model ----------------------------
(***************************************************************************)
(* crtwtch: one sweep of main() over the configured watch groups.          *)
(*                                                                         *)
(* Time is counted in whole hours.  A group of the configuration is read   *)
(* when the range loop reaches it (each group is read exactly once), so    *)
(* its fields are drawn at that step.  A site is named by its position in  *)
(* the group's site list.  A network call is a pair of steps: the call is  *)
(* issued, then it returns or its timeout fires; a peer that never answers *)
(* a call that has no timeout leaves the sweep blocked in that call.       *)
(***************************************************************************)
EXTENDS Integers, Sequences, FiniteSets

\* ---- bounds of the model ----
MaxGroups == 2
MaxSites == 2
MaxDays == 1
MaxRedline == 1

\* ---- program constants ----
HoursPerDay == 24
DialTimeout == 0
ClientTimeout == 10
StatusOK == 200

Tokens == {"", "key", "malformed"}
Redlines == (0 - 1)..MaxRedline
StatusCodes == {StatusOK, 500}
\* expiry instants, as hours relative to the group's "now"
Offsets == {HoursPerDay * n + r : n \in (0 - MaxDays)..MaxDays, r \in {0 - 1, 1}}
\* the clock reading of the sweep (hours since the epoch)
Now0 == HoursPerDay * (MaxDays + 2)

VARIABLES pc, exitCode, nGroups, gi, group, today, si, alerts, probes,
          timeout, responds, sent, msg, ret, logged

vars == <<pc, exitCode, nGroups, gi, group, today, si, alerts, probes,
          timeout, responds, sent, msg, ret, logged>>

NoGroup == [name |-> 0, token |-> "", redline |-> 0, sites |-> <<>>]
NoMsg == [kind |-> "none"]

\* ---- pure parts of main ----

\* int(x / 24) on a float64: the fraction is discarded toward zero
daysLeftFloor(expire, now) == (expire - now) \div HoursPerDay
daysLeft(expire, now) ==
    LET h == expire - now
    IN IF h >= 0 THEN h \div HoursPerDay ELSE 0 - ((0 - h) \div HoursPerDay)

\* expire.Format("2006-01-02"): the calendar day of the instant
FormatDate(t) == t \div HoursPerDay

ClassifyStrict(d, redline) ==
    IF d < redline /\ d >= 0 THEN "ExpiringSoon"
    ELSE IF d < 0 THEN "Expired"
    ELSE "Healthy"
Classify(d, redline) ==
    IF d <= redline /\ d >= 0 THEN "ExpiringSoon"
    ELSE IF d < 0 THEN "Expired"
    ELSE "Healthy"

AlertLine(kind, site, d, expire) ==
    IF kind = "ExpiringSoon"
    THEN [kind |-> kind, site |-> site, days |-> d, date |-> FormatDate(expire)]
    ELSE [kind |-> kind, site |-> site, date |-> FormatDate(expire)]

FailLine(site) == [kind |-> "CheckFailed", site |-> site]

PrependAlert(as, line) == <<line>> \o as
AppendAlert(as, line) == Append(as, line)

\* the site the inner range loop visits after a failed probe (continue)
BreakAfterFailure(i, n) == n + 1
NextSiteAfterFailure(i, n) == i + 1

\* the group the outer range loop visits next
SkipGroupIndex(g) == g + 2
NextGroupIndex(g) == g + 1

ReportCountsAlerts(g, as, date) ==
    IF Len(as) <= 0
    THEN [kind |-> "clear", sev |-> "INFO", date |-> date, name |-> g.name,
          count |-> Len(as), lines |-> <<>>]
    ELSE [kind |-> "problems", sev |-> "WARN", date |-> date, name |-> g.name,
          count |-> Len(as), lines |-> as]
Report(g, as, date) ==
    IF Len(as) <= 0
    THEN [kind |-> "clear", sev |-> "INFO", date |-> date, name |-> g.name,
          count |-> Len(g.sites), lines |-> <<>>]
    ELSE [kind |-> "problems", sev |-> "WARN", date |-> date, name |-> g.name,
          count |-> Len(as), lines |-> as]

\* main discards the error SendWxwork returns
AbortOnAnyError(err) == err # "nil"
AbortOnSendError(err) == FALSE

\* ---- the sweep ----

Init ==
    /\ pc = "start"
    /\ exitCode = 0
    /\ nGroups = 0
    /\ gi = 1
    /\ group = NoGroup
    /\ today = Now0
    /\ si = 1
    /\ alerts = <<>>
    /\ probes = <<>>
    /\ timeout = 0
    /\ responds = FALSE
    /\ sent = [g \in 1..MaxGroups |-> 0]
    /\ msg = NoMsg
    /\ ret = [g \in 1..MaxGroups |-> "none"]
    /\ logged = {}

\* config file missing, a directory, or not parseable: os.Exit(1)
ConfigFail ==
    /\ pc = "start"
    /\ \E cause \in {"not found", "parse"} :
          logged' = logged \cup {[msg |-> "config", cause |-> cause]}
    /\ pc' = "exited"
    /\ exitCode' = 1
    /\ UNCHANGED <<nGroups, gi, group, today, si, alerts, probes, timeout,
                   responds, sent, msg, ret>>

LoadConfig ==
    /\ pc = "start"
    /\ \E n \in 0..MaxGroups : nGroups' = n
    /\ gi' = 1
    /\ pc' = "loop"
    /\ UNCHANGED <<exitCode, group, today, si, alerts, probes, timeout,
                   responds, sent, msg, ret, logged>>

\* for _, group := range config.Groups { today := time.Now(); alerts := ... }
BeginGroup ==
    /\ pc = "loop"
    /\ gi <= nGroups
    /\ \E tok \in Tokens, r \in Redlines, n \in 0..MaxSites :
          group' = [name |-> gi, token |-> tok, redline |-> r,
                    sites |-> [i \in 1..n |-> i]]
    /\ today' = Now0
    /\ alerts' = <<>>
    /\ probes' = <<>>
    /\ si' = 1
    /\ msg' = NoMsg
    /\ logged' = {}
    /\ pc' = "site"
    /\ UNCHANGED <<exitCode, nGroups, gi, timeout, responds, sent, ret>>

\* the range over config.Groups is exhausted: main returns
EndSweep ==
    /\ pc = "loop"
    /\ gi > nGroups
    /\ pc' = "done"
    /\ exitCode' = 0
    /\ UNCHANGED <<nGroups, gi, group, today, si, alerts, probes, timeout,
                   responds, sent, msg, ret, logged>>

\* GetExpirationDate(site) up to tls.Dial, which has no timeout
Dial ==
    /\ pc = "site"
    /\ si <= Len(group.sites)
    /\ pc' = "probing"
    /\ timeout' = DialTimeout
    /\ \E r \in BOOLEAN : responds' = r
    /\ UNCHANGED <<exitCode, nGroups, gi, group, today, si, alerts, probes,
                   sent, msg, ret, logged>>

\* err != nil: log, append the "check failed" line, continue
ProbeFailed ==
    /\ probes' = Append(probes, [site |-> group.sites[si], err |-> TRUE])
    /\ logged' = logged \cup {[msg |-> "failed to check cert", site |-> group.sites[si]]}
    /\ alerts' = AppendAlert(alerts, FailLine(group.sites[si]))
    /\ si' = NextSiteAfterFailure(si, Len(group.sites))

\* err == nil: daysLeft (logged as days_left), then at most one alert line
ProbeSucceeded(expire) ==
    LET site == group.sites[si]
        d == daysLeft(expire, today)
        kind == Classify(d, group.redline)
    IN /\ probes' = Append(probes, [site |-> site, err |-> FALSE, expire |-> expire,
                                     days |-> d])
       /\ alerts' = IF kind = "Healthy" THEN alerts
                    ELSE AppendAlert(alerts, AlertLine(kind, site, d, expire))
       /\ si' = si + 1
       /\ UNCHANGED logged

\* tls.Dial returned: an error, a handshake with no certificate, or a leaf
ProbeReturn ==
    /\ pc = "probing"
    /\ responds
    /\ \/ \E cause \in {"dial", "no certificates found"} : ProbeFailed
       \/ \E off \in Offsets : ProbeSucceeded(today + off)
    /\ pc' = "site"
    /\ UNCHANGED <<exitCode, nGroups, gi, group, today, timeout, responds,
                   sent, msg, ret>>

\* SendWxwork returned err to main, which goes on to the next group
Finish(err) ==
    /\ ret' = [ret EXCEPT ![group.name] = err]
    /\ pc' = IF AbortOnSendError(err) THEN "exited" ELSE "loop"
    /\ exitCode' = IF AbortOnSendError(err) THEN 1 ELSE exitCode
    /\ gi' = NextGroupIndex(gi)

\* the site loop is over: build the report and call SendWxwork, up to the
\* point where client.Do is waiting for the webhook
SendReport ==
    /\ pc = "site"
    /\ si > Len(group.sites)
    /\ msg' = Report(group, alerts, FormatDate(Now0))
    /\ sent' = [sent EXCEPT ![group.name] = @ + 1]
    /\ \/ /\ group.token = ""
          /\ Finish("nil")
          /\ UNCHANGED <<timeout, responds>>
       \/ /\ group.token = "malformed"
          /\ Finish("err")
          /\ UNCHANGED <<timeout, responds>>
       \/ /\ group.token \notin {"", "malformed"}
          /\ pc' = "posting"
          /\ timeout' = ClientTimeout
          /\ \E r \in BOOLEAN : responds' = r
          /\ UNCHANGED <<exitCode, gi, ret>>
    /\ UNCHANGED <<nGroups, group, today, si, alerts, probes, logged>>

\* client.Do returned: a transport error, or a response with a status code
PostReturn ==
    /\ pc = "posting"
    /\ responds
    /\ \/ /\ Finish("err")
          /\ UNCHANGED logged
       \/ \E code \in StatusCodes :
             IF code # StatusOK
             THEN /\ logged' = logged \cup {[msg |-> "wxwork notification failed",
                                            group |-> group.name, status |-> code]}
                  /\ Finish("err")
             ELSE /\ Finish("nil")
                  /\ UNCHANGED logged
    /\ UNCHANGED <<nGroups, group, today, si, alerts, probes, timeout,
                   responds, sent, msg>>

\* the pending call's timeout elapses; a timeout of 0 means no timeout
TimeoutFires ==
    /\ pc \in {"probing", "posting"}
    /\ ~responds
    /\ timeout > 0
    /\ IF pc = "probing"
       THEN /\ ProbeFailed
            /\ pc' = "site"
            /\ UNCHANGED <<exitCode, gi, ret>>
       ELSE /\ Finish("err")
            /\ UNCHANGED <<logged, si, alerts, probes>>
    /\ UNCHANGED <<nGroups, group, today, timeout, responds, sent, msg>>

Next ==
    \/ ConfigFail
    \/ LoadConfig
    \/ BeginGroup
    \/ EndSweep
    \/ Dial
    \/ ProbeReturn
    \/ SendReport
    \/ PostReturn
    \/ TimeoutFires

Spec == Init /\ [][Next]_vars

TypeOK ==
    /\ pc \in {"start", "loop", "site", "probing", "posting", "done", "exited"}
    /\ exitCode \in {0, 1}
    /\ nGroups \in 0..MaxGroups
    /\ si \in 1..(MaxSites + 1)
    /\ timeout \in {0, DialTimeout, ClientTimeout}
    /\ responds \in BOOLEAN
    /\ \A g \in 1..MaxGroups : ret[g] \in {"none", "nil", "err"}

\* ---- properties ----

Groups == 1..MaxGroups
Reported == msg # NoMsg
LinesOf(site) == {j \in DOMAIN alerts : alerts[j].site = site}
\* the sites of the current group that are not Healthy: probe failed,
\* Expired (days < 0) or ExpiringSoon (0 <= days <= redline)
BadSites ==
    {i \in DOMAIN probes :
        \/ probes[i].err
        \/ probes[i].days < 0
        \/ (0 <= probes[i].days /\ probes[i].days <= group.redline)}

\* C1: every group the loop has passed got exactly one SendWxwork call, no
\* group ever gets more than one, and when the sweep is done every configured
\* group has exactly one.
ExactlyOneDeliverPerGroup ==
    /\ \A g \in Groups : sent[g] <= 1
    /\ \A g \in Groups : (pc # "start" /\ g < gi /\ g <= nGroups) => sent[g] = 1
    /\ \A g \in Groups : g > nGroups => sent[g] = 0
    /\ pc = "done" => \A g \in 1..nGroups : sent[g] = 1

OneDeliverDespiteFailures ==
    /\ pc = "done"
    /\ nGroups >= 2
    /\ ret[1] = "err"
    /\ \E i \in DOMAIN probes : probes[i].err
    /\ Len(alerts) >= 2
    /\ \A g \in 1..nGroups : sent[g] = 1

\* C2: with redline R >= 0, a successfully probed site with daysLeft D has no
\* alert line iff D > R, an "expiring soon" line iff 0 <= D <= R, an "expired"
\* line iff D < 0, and never more than one line.
ClassificationPartition ==
    \A i \in DOMAIN probes :
        (~probes[i].err /\ group.redline >= 0) =>
            LET D == probes[i].days
                R == group.redline
                L == LinesOf(probes[i].site)
            IN /\ (L = {}) <=> (D > R)
               /\ (\E j \in L : alerts[j].kind = "ExpiringSoon") <=> (0 <= D /\ D <= R)
               /\ (\E j \in L : alerts[j].kind = "Expired") <=> (D < 0)
               /\ Cardinality(L) <= 1
               /\ \A j \in L : alerts[j].kind = "ExpiringSoon" => alerts[j].days = D

ClassifiedAtRedline ==
    /\ Len(probes) = 2
    /\ group.redline = 0
    /\ ~probes[1].err /\ probes[1].days = 0
    /\ ~probes[2].err /\ probes[2].days = 1
    /\ Len(alerts) = 1
    /\ alerts[1].kind = "ExpiringSoon"

\* C3: a report for a group with at least one non-healthy site has severity
\* Warning, states as many problems and carries as many alert lines as there
\* are non-healthy sites, and its lines follow the order of the site list.
WarningReport ==
    (Reported /\ BadSites # {}) =>
        /\ msg.sev = "WARN"
        /\ msg.kind = "problems"
        /\ msg.count = Cardinality(BadSites)
        /\ Len(msg.lines) = Cardinality(BadSites)
        /\ \A j \in DOMAIN msg.lines :
              \E i \in BadSites : msg.lines[j].site = group.sites[i]
        /\ \A j, k \in DOMAIN msg.lines :
              j < k => msg.lines[j].site < msg.lines[k].site

WarningReportSent ==
    /\ Reported
    /\ Len(group.sites) = 2
    /\ ~probes[1].err /\ probes[1].days = 1 /\ group.redline = 1
    /\ probes[2].err
    /\ msg.sev = "WARN"
    /\ msg.count = 2

\* C4: a report for a group whose sites are all Healthy (an empty site list
\* included) is the "all clear" one, with severity Info and the length of the
\* site list as its count; a report of severity Info has no alert line.
AllClearReport ==
    Reported =>
        /\ (BadSites = {} /\ Len(probes) = Len(group.sites)) =>
              /\ msg.kind = "clear"
              /\ msg.sev = "INFO"
              /\ msg.count = Len(group.sites)
        /\ msg.sev = "INFO" => (Len(alerts) = 0 /\ BadSites = {})

AllClearSent ==
    /\ Reported
    /\ Len(group.sites) = 2
    /\ Len(probes) = 2
    /\ BadSites = {}
    /\ msg.kind = "clear"

\* C5: a site whose expiry lies before the group's "now" has an "expired"
\* alert line.
PastExpiryIsExpired ==
    \A i \in DOMAIN probes :
        (~probes[i].err /\ probes[i].expire < today) =>
            \E j \in LinesOf(probes[i].site) : alerts[j].kind = "Expired"

\* C6: the sites of a group are probed once each, in order, whatever probes
\* fail; a failed probe leaves exactly one "check failed" line for its site;
\* the report is built only when every site has been probed, and every group
\* the loop has passed was reported.
EverySiteProbedOnce ==
    /\ Len(probes) <= Len(group.sites)
    /\ \A i \in DOMAIN probes : probes[i].site = group.sites[i]
    /\ pc \in {"site", "probing"} => Len(probes) = si - 1
    /\ Reported => Len(probes) = Len(group.sites)
    /\ \A i \in DOMAIN probes :
          probes[i].err =>
              /\ Cardinality(LinesOf(probes[i].site)) = 1
              /\ \A j \in LinesOf(probes[i].site) : alerts[j].kind = "CheckFailed"
    /\ \A g \in Groups : (pc # "start" /\ g < gi /\ g <= nGroups) => ret[g] # "none"

ProbedAfterFailure ==
    /\ Reported
    /\ group.name = 2
    /\ Len(probes) = 2
    /\ probes[1].err
    /\ ~probes[2].err
    /\ probes[2].days < 0
    /\ Len(alerts) = 2

\* C7: a failed delivery leaves the exit status at 0 and the groups after it
\* get their delivery; the sweep exits non-zero only before any delivery.
DeliveryFailureIsolated ==
    /\ pc = "exited" => \A g \in Groups : ret[g] = "none" /\ sent[g] = 0
    /\ (\E g \in Groups : ret[g] = "err") => exitCode = 0
    /\ \A g \in Groups :
          (ret[g] = "err" /\ pc = "done") => \A h \in (g + 1)..nGroups : sent[h] = 1

SweepDoneAfterFailedDelivery ==
    /\ pc = "done"
    /\ exitCode = 0
    /\ nGroups = 2
    /\ ret[1] = "err"
    /\ ret[2] = "nil"
    /\ sent[2] = 1

\* C8: when the delivery for the current group has failed, an error entry for
\* that failed delivery has been logged.
DeliveryFailureLogged ==
    (Reported /\ ret[group.name] = "err") =>
        \E e \in logged : e.msg = "wxwork notification failed" /\ e.group = group.name

\* C9: a pending network call either gets an answer or has a timeout that
\* will fire, so the sweep is never blocked in it for ever.
NoUnboundedWait ==
    pc \in {"probing", "posting"} => (responds \/ timeout > 0)

\* C10: the logged daysLeft is the hours to expiry divided by 24 with the
\* fraction discarded toward zero; 24*N + 1 hours ahead gives N.
DaysLeftTruncates ==
    \A i \in DOMAIN probes :
        ~probes[i].err =>
            LET h == probes[i].expire - today
                D == probes[i].days
            IN /\ h >= 0 => (D >= 0 /\ HoursPerDay * D <= h /\ h < HoursPerDay * (D + 1))
               /\ h < 0 => (D <= 0 /\ HoursPerDay * D >= h /\ h > HoursPerDay * (D - 1))
               /\ \A N \in 0..(MaxDays + 1) : h = HoursPerDay * N + 1 => D = N

TruncatedBothWays ==
    /\ Len(probes) = 2
    /\ ~probes[1].err /\ probes[1].expire - today = HoursPerDay + 1 /\ probes[1].days = 1
    /\ ~probes[2].err /\ probes[2].expire - today = 0 - 1 /\ probes[2].days = 0

====
